---- MODULE Spec2Model ----
(***************************************************************************)
(* PackageDB.clone_branch of fedora/client/pkgdb.py: one invocation of the *)
(* branch-clone reconciliation against a package registry.                 *)
(*                                                                         *)
(* The registry is the remote collaborator.  Its package listings hold,    *)
(* per person and permission kind, a numeric status code or None; every    *)
(* response carries the status map that gives the codes their names.       *)
(* The helper calls of the method (get_package_info,                       *)
(* canonical_branch_name, send_request) are taken to resolve and to        *)
(* answer; what they answer is the registry's choice.                      *)
(***************************************************************************)
EXTENDS Integers, Sequences, FiniteSets, TLC

(* ---------------------------------------------------------------- bounds *)

\* Longest target list the caller passes.
MaxTargets == 2

\* Status codes the registry uses are 1..NumCodes.
NumCodes == 3

(* ------------------------------------------------------------- vocabulary *)

\* The branch cloned from, and every branch name of the model.
master == "devel"
Branches == {"devel", "F-9", "F-8"}

Persons == {"p1", "p2"}

\* The people a listing may have: nobody, or one of the persons.
Staff == {{}, {"p1"}, {"p2"}}
Acls == {"commit"}

\* A person's aclOrder entry that is None.
Null == 0
Codes == 1..NumCodes

\* str(statuscode): the key under which a status map holds a code.
str(code) ==
    CASE code = 1 -> "1" [] code = 2 -> "2" [] code = 3 -> "3"
      [] code = 4 -> "4" [] code = 5 -> "5" [] OTHER -> "?"

\* Status maps a response may carry.  The second lacks code 3; the third
\* names the codes 1 and 2 the other way round.
StatusMaps ==
    { [k \in {"1", "2", "3"} |->
          CASE k = "1" -> "Approved" [] k = "2" -> "Obsolete" [] OTHER -> "Denied"],
      [k \in {"1", "2"} |->
          CASE k = "1" -> "Approved" [] OTHER -> "Obsolete"],
      [k \in {"1", "2", "3"} |->
          CASE k = "1" -> "Obsolete" [] k = "2" -> "Approved" [] OTHER -> "Denied"] }

\* pkgListing['people'] of one listing: userid -> aclOrder, aclOrder: acl ->
\* None or a status code.
PeopleStates ==
    UNION { [S -> [Acls -> {Null} \cup Codes]] : S \in Staff }

\* The groups of a listing.
Groups == {"g1"}

\* pkgInfo['groups'] of the master listing: group name -> its
\* aclOrder['commit'] entry, None or a status code.
GroupStates ==
    UNION { [G -> {Null} \cup Codes] : G \in SUBSET Groups }

\* The package record the registry holds: branch name -> people, for the
\* branches that have a listing.
Registries ==
    UNION { [B -> PeopleStates] : B \in SUBSET Branches }

\* Target lists a caller may pass (a Python list: order and repeats count).
TargetLists ==
    UNION { [1..n -> Branches] : n \in 0..MaxTargets }

\* Outcome of a clone that raised nothing yet.
NoError == "none"

VARIABLES
    registry,       \* the registry's package record (people per branch)
    branches,       \* the caller's target list, edited in place (line 94)
    metaSupplied,   \* groups or coMaintList or ccList or description or owner
    pc,             \* position in clone_branch
    err,            \* exception that ended the call, or NoError
    pkgdbStatus,    \* pkgInfo['statusMap'] of the master response (line 89)
    pkgInfo,        \* people of packageListings[0] of the master response
    provisioned,    \* branch lists sent to edit_package (line 109)
    allStatusMap,   \* allPkgInfo['statusMap'] of the re-fetch (line 131)
    branchIds,      \* branches given a PackageListing id (line 136)
    aclChanges,     \* branch -> userid -> acl -> status name to set
    sent,           \* set_acl_status requests issued
    acked,          \* requests answered with a true status
    refused,        \* requests answered with a false status
    editRefused,    \* edit_package answered with a false status (line 244)
    pkgGroups,      \* pkgInfo['groups'] of the master response (line 101)
    groupList       \* group name -> flag, as passed on line 111

vars == << registry, branches, metaSupplied, pc, err, pkgdbStatus, pkgInfo,
           provisioned, allStatusMap, branchIds, aclChanges, sent, acked,
           refused, editRefused, pkgGroups, groupList >>

(* ------------------------------------------------------ status resolution *)

\* pkgdbStatus.has_key(str(statuscode))
has_key(statusMap, code) == str(code) \in DOMAIN statusMap

\* pkgdbStatus[str(statuscode)]; a KeyError where has_key is false.
resolve(statusMap, code) == statusMap[str(code)]

(* ----------------------------------------------------------- desired state *)

\* Lines 118-122: the acls of one master person that are set, by status name.
personAclsOf(aclOrder, statusMap) ==
    [acl \in {a \in DOMAIN aclOrder : aclOrder[a] # Null} |->
        resolve(statusMap, aclOrder[acl])]

\* Lines 117-122: what every target branch is to end up with.
wanted(people, statusMap) ==
    [person \in DOMAIN people |-> personAclsOf(people[person], statusMap)]

\* Line 122 raises KeyError on a master code the status map lacks.
wantedRaises(people, statusMap) ==
    \E person \in DOMAIN people : \E acl \in DOMAIN people[person] :
        /\ people[person][acl] # Null
        /\ ~has_key(statusMap, people[person][acl])

(* -------------------------------------------------------------------- diff *)

\* Lines 141-148 without the test against 'Obsolete' of line 147.
revokedWhateverStatus(aclOrder, statusMap) ==
    [acl \in {a \in DOMAIN aclOrder : aclOrder[a] # Null} |-> "Obsolete"]

\* Lines 141-148: a person of the target listing the master does not have.
revoked(aclOrder, statusMap) ==
    [acl \in {a \in DOMAIN aclOrder :
                 /\ aclOrder[a] # Null
                 /\ resolve(statusMap, aclOrder[a]) # "Obsolete"} |-> "Obsolete"]

\* Line 147 raises KeyError on a target code the status map lacks.
revokedRaises(aclOrder, statusMap) ==
    \E acl \in DOMAIN aclOrder :
        aclOrder[acl] # Null /\ ~has_key(statusMap, aclOrder[acl])

\* Lines 150-171 for one acl of a person both listings have: whether the acl
\* is a key of personAcls once the loop has passed it.
stays(code, personAcls, acl, statusMap) ==
    IF code = Null
    THEN \* lines 151-161
         acl \in DOMAIN personAcls /\ personAcls[acl] # "Obsolete"
    ELSE IF acl \notin DOMAIN personAcls
    THEN \* lines 162-164
         TRUE
    ELSE \* lines 165-171
         ~(has_key(statusMap, code) /\ resolve(statusMap, code) = personAcls[acl])

\* Lines 150-171: personAcls of a person both listings have, after the loop.
reconciled(aclOrder, personAcls, statusMap) ==
    [acl \in {a \in DOMAIN personAcls \cup DOMAIN aclOrder :
                 IF a \in DOMAIN aclOrder
                 THEN stays(aclOrder[a], personAcls, a, statusMap)
                 ELSE TRUE} |->
        IF acl \in DOMAIN personAcls THEN personAcls[acl] ELSE "Obsolete"]

\* Lines 115-122 with one personAcls dict per person shared by all the
\* branches instead of a new one per branch (line 118): the listing of
\* another branch has been reconciled into desired before this branch is.
branchChangesShared(branch, listings, desired, statusMap) ==
    LET others == DOMAIN listings \ {branch, master}
        other == CHOOSE b \in others : TRUE
        shared ==
            IF others = {}
            THEN desired
            ELSE [person \in DOMAIN desired |->
                    IF person \in DOMAIN listings[other]
                    THEN reconciled(listings[other][person], desired[person], statusMap)
                    ELSE desired[person]]
    IN  IF branch \notin DOMAIN listings
        THEN shared
        ELSE [person \in DOMAIN shared \cup DOMAIN listings[branch] |->
                IF person \notin DOMAIN listings[branch]
                THEN shared[person]
                ELSE IF person \notin DOMAIN shared
                THEN revoked(listings[branch][person], statusMap)
                ELSE reconciled(listings[branch][person], shared[person], statusMap)]

\* Lines 115-122 and 138-171 for one branch of the target list: the entry
\* aclChanges[branch] once the listings of the re-fetch have been scanned.
branchChanges(branch, listings, desired, statusMap) ==
    IF branch \notin DOMAIN listings
    THEN desired
    ELSE [person \in DOMAIN desired \cup DOMAIN listings[branch] |->
            IF person \notin DOMAIN listings[branch]
            THEN desired[person]
            ELSE IF person \notin DOMAIN desired
            THEN revoked(listings[branch][person], statusMap)
            ELSE reconciled(listings[branch][person], desired[person], statusMap)]

\* Line 147 raises for some listing of the target list.
scanRaises(targets, listings, desired, statusMap) ==
    \E branch \in targets \cap DOMAIN listings :
        \E person \in DOMAIN listings[branch] \ DOMAIN desired :
            revokedRaises(listings[branch][person], statusMap)

\* The set_acl_status requests lines 178-185 go through.
requests(changes) ==
    { [branch |-> b, personid |-> p, new_acl |-> a, statusname |-> changes[b][p][a]] :
        <<b, p, a>> \in { t \in (DOMAIN changes) \X Persons \X Acls :
                            /\ t[2] \in DOMAIN changes[t[1]]
                            /\ t[3] \in DOMAIN changes[t[1]][t[2]] } }

(* ------------------------------------------------------------- group list *)

\* Lines 102-103 taking every commit entry that is set for an approval.
groupFlagWhateverStatus(commit, statusMap) == commit # Null

\* Lines 102-103: the flag of a group, from its commit entry.
groupFlag(commit, statusMap) ==
    commit # Null /\ resolve(statusMap, commit) = "Approved"

\* Line 103 raises KeyError on a group's code the status map lacks.
groupListRaises(groups, statusMap) ==
    \E group \in DOMAIN groups :
        groups[group] # Null /\ ~has_key(statusMap, groups[group])

\* Lines 100-106: groupList, a flag for every group of the master listing.
groupListOf(groups, statusMap) ==
    [group \in DOMAIN groups |-> groupFlag(groups[group], statusMap)]

(* ------------------------------------------------------------ target list *)

\* branches.index(master), or 0 where index raises ValueError.
index(list, x) ==
    IF \E i \in 1..Len(list) : list[i] = x
    THEN CHOOSE i \in 1..Len(list) :
            list[i] = x /\ \A j \in 1..(i - 1) : list[j] # x
    ELSE 0

\* Lines 93-97: del branches[branches.index(master)], ValueError passed over.
withoutMaster(list) ==
    IF index(list, master) = 0
    THEN list
    ELSE SubSeq(list, 1, index(list, master) - 1) \o
         SubSeq(list, index(list, master) + 1, Len(list))

elements(list) == { list[i] : i \in 1..Len(list) }

(* ------------------------------------------------------------------ state *)

Init ==
    /\ registry \in Registries
    /\ branches \in TargetLists
    /\ metaSupplied \in BOOLEAN
    /\ pc = "start"
    /\ err = NoError
    /\ pkgdbStatus = << >>
    /\ pkgInfo = << >>
    /\ provisioned = << >>
    /\ allStatusMap = << >>
    /\ branchIds = {}
    /\ aclChanges = << >>
    /\ sent = {}
    /\ acked = {}
    /\ refused = {}
    /\ editRefused = FALSE
    /\ pkgGroups = << >>
    /\ groupList = << >>

\* An exception that is recorded but does not leave the step that raised it.
raiseAndStay(exception) ==
    /\ pc' = pc
    /\ err' = exception

\* An exception leaves clone_branch: nothing further is done.
raise(exception) ==
    /\ pc' = "failed"
    /\ err' = exception

\* Lines 80-83.  PackageDB has no attribute add_edit_packages, so the call
\* for supplied metadata raises AttributeError.
MasterEdit ==
    /\ pc = "start"
    /\ IF metaSupplied
       THEN raise("AttributeError")
       ELSE pc' = "fetchMaster" /\ err' = err
    /\ UNCHANGED << registry, branches, metaSupplied, pkgdbStatus, pkgInfo,
                    provisioned, allStatusMap, branchIds, aclChanges, sent, acked, refused,
                    editRefused, pkgGroups, groupList >>

\* Lines 85-106 without the test for 'message' of lines 87-88: a master that
\* is not found is taken for a listing without people or groups.
FetchMasterUnchecked ==
    /\ pc = "fetchMaster"
    /\ \E statusMap \in StatusMaps : pkgdbStatus' = statusMap
    /\ pkgInfo' = IF master \in DOMAIN registry THEN registry[master] ELSE << >>
    /\ branches' = withoutMaster(branches)
    /\ pkgGroups' = << >>
    /\ groupList' = << >>
    /\ pc' = "provision"
    /\ err' = err
    /\ UNCHANGED << registry, metaSupplied, provisioned, allStatusMap,
                    branchIds, aclChanges, sent, acked, refused, editRefused >>

\* Lines 85-106: fetch the master branch, keep its status map and listing,
\* take the master out of the target list and turn the groups of the listing
\* into groupList.
FetchMaster ==
    /\ pc = "fetchMaster"
    /\ \/ /\ master \notin DOMAIN registry
          /\ raise("PackageDBError")
          /\ UNCHANGED << branches, pkgdbStatus, pkgInfo, pkgGroups, groupList >>
       \/ /\ master \in DOMAIN registry
          /\ \E statusMap \in StatusMaps : \E groups \in GroupStates :
                /\ pkgdbStatus' = statusMap
                /\ pkgGroups' = groups
                /\ IF groupListRaises(groups, statusMap)
                   THEN /\ raise("KeyError")
                        /\ groupList' = groupList
                   ELSE /\ groupList' = groupListOf(groups, statusMap)
                        /\ pc' = "provision"
                        /\ err' = err
          /\ pkgInfo' = registry[master]
          /\ branches' = withoutMaster(branches)
    /\ UNCHANGED << registry, metaSupplied, provisioned, allStatusMap,
                    branchIds, aclChanges, sent, acked, refused, editRefused >>

\* Lines 108-111 left out: the target branches are never provisioned.
ProvisionOmitted ==
    /\ pc = "provision"
    /\ pc' = "diff"
    /\ pkgGroups' = << >>
    /\ groupList' = << >>
    /\ UNCHANGED << registry, branches, metaSupplied, err, pkgdbStatus, pkgInfo,
                    provisioned, allStatusMap, branchIds, aclChanges, sent, acked,
                    refused, editRefused >>

\* Line 244 taking every answer of edit_package for a success.
rejectedNever(response) == FALSE

\* Line 244: the answer of edit_package makes add_edit_package raise
\* PackageDBError.
rejected(response) == response = "false"

\* Lines 108-111 with add_edit_package, lines 213-245: one edit_package
\* request for the whole target list, with groupList.  With an empty list
\* data['collections'] is never set and line 240 raises KeyError before any
\* request.  The answer holds a true status, a false status or no status at
\* all; line 244 reads response['status'] without a test, so the last raises
\* KeyError.  Neither groupList nor the groups of the master listing are read
\* after line 111; they are dropped here.
Provision ==
    /\ pc = "provision"
    /\ \/ /\ branches = << >>
          /\ raise("KeyError")
          /\ UNCHANGED << provisioned, editRefused >>
       \/ /\ branches # << >>
          /\ provisioned' = Append(provisioned, branches)
          /\ \E response \in {"true", "false", "none"} :
                /\ editRefused' = (response = "false")
                /\ IF rejected(response)
                   THEN raise("PackageDBError")
                   ELSE IF response = "none"
                        THEN raise("KeyError")
                        ELSE pc' = "diff" /\ err' = err
    /\ pkgGroups' = << >>
    /\ groupList' = << >>
    /\ UNCHANGED << registry, branches, metaSupplied, pkgdbStatus, pkgInfo,
                    allStatusMap, branchIds, aclChanges, sent, acked, refused >>

\* Lines 113-173: build the desired acls of every target branch, fetch the
\* whole package record and scan the listings of the target branches.
Diff ==
    /\ pc = "diff"
    /\ \E statusMap \in StatusMaps : allStatusMap' = statusMap
    /\ IF \/ wantedRaises(pkgInfo, pkgdbStatus)
          \/ scanRaises(elements(branches), registry,
                        wanted(pkgInfo, pkgdbStatus), pkgdbStatus)
       THEN /\ raise("KeyError")
            /\ UNCHANGED << branchIds, aclChanges >>
       ELSE /\ aclChanges' =
                 [branch \in elements(branches) |->
                     branchChanges(branch, registry,
                                   wanted(pkgInfo, pkgdbStatus), pkgdbStatus)]
            /\ branchIds' = elements(branches) \cap DOMAIN registry
            /\ pc' = "write"
            /\ err' = err
    /\ UNCHANGED << registry, branches, metaSupplied, pkgdbStatus, pkgInfo,
                    provisioned, sent, acked, refused,
                    editRefused, pkgGroups, groupList >>

\* Line 186 taking every response for a success.
failedNever(response) == FALSE

\* Line 186: the response makes clone_branch raise.
failed(response) == response = "false"

\* Lines 178-187, one pass of the innermost loop: the next entry of
\* aclChanges is sent, or branchIds[branch] raises KeyError.  The dicts are
\* walked in no fixed order, so any unsent entry may be the next.  A response
\* may hold a true status, a false status or no status at all; the registry
\* has carried a change out only where it answers with a true status.
Write ==
    /\ pc = "write"
    /\ \E data \in requests(aclChanges) \ sent :
          \/ /\ data.branch \notin branchIds
             /\ raise("KeyError")
             /\ UNCHANGED << sent, acked, refused >>
          \/ /\ data.branch \in branchIds
             /\ sent' = sent \cup {data}
             /\ \E response \in {"true", "false", "none"} :
                   /\ acked' = IF response = "true" THEN acked \cup {data} ELSE acked
                   /\ refused' = IF response = "false" THEN refused \cup {data} ELSE refused
                   /\ IF failed(response)
                      THEN raise("PackageDBError")
                      ELSE pc' = pc /\ err' = err
    /\ UNCHANGED << registry, branches, metaSupplied, pkgdbStatus, pkgInfo,
                    provisioned, allStatusMap, branchIds, aclChanges,
                    editRefused, pkgGroups, groupList >>

\* The loops of lines 178-180 are exhausted: clone_branch returns.
Return ==
    /\ pc = "write"
    /\ requests(aclChanges) \subseteq sent
    /\ pc' = "done"
    /\ UNCHANGED << registry, branches, metaSupplied, err, pkgdbStatus, pkgInfo,
                    provisioned, allStatusMap, branchIds, aclChanges, sent, acked, refused,
                    editRefused, pkgGroups, groupList >>

Next ==
    \/ MasterEdit
    \/ FetchMaster
    \/ Provision
    \/ Diff
    \/ Write
    \/ Return

Spec == Init /\ [][Next]_vars

\* Every loop of clone_branch runs over a finite list or dict and every
\* remote call returns: a step that can be taken is taken.
FairSpec == Spec /\ WF_vars(Next)

(* ------------------------------------------------- vocabulary of the claims *)

\* The status a (branch, person, acl) cell of a package record resolves to
\* under a status map: "unspecified" where there is no listing, no person or
\* a None entry, "unknown" for a code the map lacks.
statusOf(statusMap, listings, branch, person, acl) ==
    IF branch \notin DOMAIN listings THEN "unspecified"
    ELSE IF person \notin DOMAIN listings[branch] THEN "unspecified"
    ELSE IF listings[branch][person][acl] = Null THEN "unspecified"
    ELSE IF ~has_key(statusMap, listings[branch][person][acl]) THEN "unknown"
    ELSE resolve(statusMap, listings[branch][person][acl])

\* Obsolete and unspecified count as the same standing.
standing(status) == IF status = "Obsolete" THEN "unspecified" ELSE status

\* The status of a cell of a target branch once the acknowledged writes
\* have been applied to the fetched record.
statusAfter(branch, person, acl) ==
    IF \E data \in acked :
          data.branch = branch /\ data.personid = person /\ data.new_acl = acl
    THEN (CHOOSE data \in acked :
            data.branch = branch /\ data.personid = person /\ data.new_acl = acl
         ).statusname
    ELSE statusOf(allStatusMap, registry, branch, person, acl)

\* The requests of a change-set for one cell.
requestsFor(changes, branch, person, acl) ==
    { data \in requests(changes) :
        data.branch = branch /\ data.personid = person /\ data.new_acl = acl }

\* The change-set has been computed.
Diffed == DOMAIN aclChanges # {}

\* Both responses of the run carried the same status map.
SameStatusMap == allStatusMap = pkgdbStatus

(* ------------------------------------------------------------------ claims *)

\* C1: if clone_branch returns without raising and the registry's status
\* catalogue is the same throughout, every cell of every branch left in the
\* target list has, after the writes, the standing it has on the master
\* (Obsolete and unspecified counting as the same).
C1_ConvergedOnReturn ==
    (pc = "done" /\ SameStatusMap) =>
        \A branch \in elements(branches) : \A person \in Persons : \A acl \in Acls :
            standing(statusAfter(branch, person, acl)) =
                standing(statusOf(pkgdbStatus, registry, master, person, acl))

\* C2: no set_acl_status request carries the status name its cell already
\* resolves to in the freshly fetched record (checked here for runs whose two
\* responses carried the same status map).
C2_NoRedundantWrite ==
    SameStatusMap =>
        \A data \in sent :
            data.statusname #
                statusOf(allStatusMap, registry, data.branch, data.personid, data.new_acl)

\* The code a status map gives a status name.
codeOf(statusMap, statusname) ==
    CHOOSE code \in Codes :
        has_key(statusMap, code) /\ resolve(statusMap, code) = statusname

\* The people of a target listing once a change-set has been applied to it.
applied(people, changes, statusMap) ==
    [person \in DOMAIN people \cup {p \in DOMAIN changes : DOMAIN changes[p] # {}} |->
        [acl \in Acls |->
            IF person \in DOMAIN changes /\ acl \in DOMAIN changes[person]
            THEN codeOf(statusMap, changes[person][acl])
            ELSE IF person \in DOMAIN people THEN people[person][acl] ELSE Null]]

\* C3: the change-set of a target branch, applied to that branch and
\* computed again against the same master state, is empty.
C3_SecondDiffEmpty ==
    (pc = "write" /\ SameStatusMap) =>
        \A branch \in (DOMAIN aclChanges \cap DOMAIN registry) \ {master} :
            LET after == [registry EXCEPT ![branch] =
                             applied(registry[branch], aclChanges[branch], pkgdbStatus)]
                desired == wanted(pkgInfo, pkgdbStatus)
            IN  /\ ~scanRaises({branch}, after, desired, pkgdbStatus)
                /\ requests([b \in {branch} |->
                       branchChanges(b, after, desired, pkgdbStatus)]) = {}

\* The entry the decision table gives for a current and a desired status:
\* the status to write, or "no write".
tableEntry(current, desired) ==
    IF desired = "unspecified"
    THEN IF current \in {"unspecified", "Obsolete"} THEN "no write" ELSE "Obsolete"
    ELSE IF current = desired THEN "no write" ELSE desired

\* C4: for a person both the master and a target listing have, the entry of
\* the change-set for each acl is the one the decision table gives for the
\* current and the desired status (desired unspecified or active).
C4_DecisionTable ==
    (Diffed /\ SameStatusMap) =>
        \A branch \in DOMAIN aclChanges \cap DOMAIN registry :
            \A person \in DOMAIN registry[branch] \cap DOMAIN pkgInfo : \A acl \in Acls :
                LET current == statusOf(pkgdbStatus, registry, branch, person, acl)
                    desired == statusOf(pkgdbStatus, registry, master, person, acl)
                    entry == IF acl \in DOMAIN aclChanges[branch][person]
                             THEN aclChanges[branch][person][acl]
                             ELSE "no write"
                IN  (current # "unknown" /\ desired # "Obsolete") =>
                        entry = tableEntry(current, desired)

C6_MasterOnlyPerson ==
    (Diffed /\ SameStatusMap) =>
        \A branch \in DOMAIN aclChanges \cap DOMAIN registry :
            \A person \in DOMAIN pkgInfo \ DOMAIN registry[branch] : \A acl \in Acls :
                LET desired == statusOf(pkgdbStatus, registry, master, person, acl)
                    forCell == requestsFor(aclChanges, branch, person, acl)
                IN  IF desired \in {"unspecified", "Obsolete"}
                    THEN forCell = {}
                    ELSE /\ Cardinality(forCell) = 1
                         /\ \A data \in forCell : data.statusname = desired

\* C7: the master branch is in no branch list sent to the provisioning call
\* and is the branch of no set_acl_status request.
C7_MasterExcluded ==
    /\ \A i \in 1..Len(provisioned) : master \notin elements(provisioned[i])
    /\ \A data \in sent : data.branch # master

\* C8: no request is issued for a cell whose fetched status code the status
\* map it is resolved with lacks.
C8_UnknownCodeNeverWritten ==
    \A data \in sent :
        (/\ data.personid \in DOMAIN pkgInfo
         /\ pkgInfo[data.personid][data.new_acl] # Null) =>
            statusOf(pkgdbStatus, registry, data.branch, data.personid, data.new_acl)
                # "unknown"

\* C9: the change-set of every target branch is the one that results from
\* resolving the status codes of its listing with the status map of the
\* re-fetch, the response the listing came in.
C9_PerResponseStatusMap ==
    (Diffed /\ ~scanRaises(DOMAIN aclChanges, registry,
                           wanted(pkgInfo, pkgdbStatus), allStatusMap)) =>
        \A branch \in DOMAIN aclChanges \ {master} :
            aclChanges[branch] =
                branchChanges(branch, registry,
                              wanted(pkgInfo, pkgdbStatus), allStatusMap)

\* C10: once a set_acl_status request has been answered with a false
\* status, clone_branch has raised PackageDBError, and no further request is
\* issued.
C10_FailFast ==
    [][ /\ refused' # {} => (pc' = "failed" /\ err' = "PackageDBError")
        /\ refused # {} => sent' = sent ]_vars

\* A request was refused after another had been acknowledged and while
\* further entries of the change-set were still unsent.
C10_Witness ==
    /\ refused # {}
    /\ acked # {}
    /\ \E data \in requests(aclChanges) \ sent : data.branch \in branchIds

\* C11: clone_branch returns normally only if every set_acl_status request
\* it issued was answered with a true status; a response without a status
\* field is no success.
C11_ReturnMeansAllAcknowledged ==
    pc = "done" => sent = acked

\* C12: where the registry has no master branch, the clone gets no further
\* than the master fetch: it ends in PackageDBError there, and neither a
\* provisioning call nor a set_acl_status request is issued.
C12_MissingMaster ==
    master \notin DOMAIN registry =>
        /\ pc \in {"start", "fetchMaster", "failed"}
        /\ (pc = "failed" /\ ~metaSupplied) => err = "PackageDBError"
        /\ provisioned = << >>
        /\ sent = {}

\* The master fetch was answered with not-found, for a caller with targets.
C12_Witness ==
    /\ master \notin DOMAIN registry
    /\ ~metaSupplied
    /\ branches # << >>
    /\ pc = "failed"
    /\ err = "PackageDBError"

\* C13: when metadata is supplied, an edit of the master branch has been
\* sent to the registry by the time clone_branch has passed its first step.
C13_MasterEditSent ==
    (metaSupplied /\ pc # "start") =>
        /\ Len(provisioned) >= 1
        /\ provisioned[1] = << master >>

\* C14: the remote calls of a run come in the order master fetch,
\* provisioning, re-fetch, writes: each is made only once the one before it
\* has been made and before the one after it; every request sent is an entry
\* of the change-set computed for all target branches, which no longer
\* changes once requests are sent.
C14_StepOrder ==
    [][ /\ pkgdbStatus' # pkgdbStatus =>
              (provisioned = << >> /\ allStatusMap = << >> /\ sent = {})
        /\ provisioned' # provisioned =>
              (pkgdbStatus # << >> /\ allStatusMap = << >> /\ sent = {})
        /\ allStatusMap' # allStatusMap =>
              (provisioned # << >> /\ sent = {})
        /\ sent' # sent =>
              /\ allStatusMap # << >>
              /\ aclChanges' = aclChanges
              /\ DOMAIN aclChanges = elements(branches)
              /\ sent' \subseteq requests(aclChanges) ]_vars

\* Requests have gone out to two target branches.
C14_Witness ==
    \E d1 \in sent : \E d2 \in sent : d1.branch # d2.branch

\* C15: a target branch the re-fetched record lacks does not make the run
\* fail after requests for other branches have been sent: a run that ends in
\* the KeyError of a missing branch id has sent nothing.
C15_MissingTargetNoPartialFailure ==
    (pc = "failed" /\ err = "KeyError") => sent = {}

C17_GroupApproval ==
    pc = "provision" =>
        /\ DOMAIN groupList = DOMAIN pkgGroups
        /\ \A group \in DOMAIN pkgGroups :
              groupList[group] =
                 (/\ pkgGroups[group] # Null
                  /\ has_key(pkgdbStatus, pkgGroups[group])
                  /\ pkgdbStatus[str(pkgGroups[group])] = "Approved")

\* A group whose commit entry is set but does not resolve to Approved is
\* about to be sent with a false flag to a non-empty target list.
C17_Witness ==
    /\ pc = "provision"
    /\ branches # << >>
    /\ \E group \in DOMAIN pkgGroups :
          /\ pkgGroups[group] # Null
          /\ ~groupList[group]

\* The package record with every listing but that of one branch taken away.
listingOf(branch) ==
    [b \in {branch} \cap DOMAIN registry |-> registry[b]]

\* C18  One desired state, not shared: the changes worked out for a target
\* branch are those of diffing the listing of that branch alone against the
\* desired state derived from the master, whatever the other target branches
\* list; and where the target branch does not list a person of the master,
\* the desired acls of that person stand as derived.
C18_DesiredStateNotShared ==
    Diffed =>
        \A branch \in DOMAIN aclChanges :
            /\ aclChanges[branch] =
                  branchChanges(branch, listingOf(branch),
                                wanted(pkgInfo, pkgdbStatus), pkgdbStatus)
            /\ \A person \in DOMAIN pkgInfo :
                  (\/ branch \notin DOMAIN registry
                   \/ person \notin DOMAIN registry[branch])
                  => aclChanges[branch][person] =
                        personAclsOf(pkgInfo[person], pkgdbStatus)

\* Two target branches have been diffed; the diff of one took a desired acl
\* of a person out, the diff of the other kept it.
C18_Witness ==
    /\ Diffed
    /\ \E b1 \in DOMAIN aclChanges \cap DOMAIN registry :
       \E b2 \in DOMAIN aclChanges \ {b1} :
       \E person \in DOMAIN pkgInfo :
       \E acl \in DOMAIN personAclsOf(pkgInfo[person], pkgdbStatus) :
          /\ acl \notin DOMAIN aclChanges[b1][person]
          /\ acl \in DOMAIN aclChanges[b2][person]

\* C19  Termination: every call of clone_branch ends, by returning or by
\* raising; it does not stay in one of its steps for ever.
C19_Termination == <>(pc \in {"done", "failed"})

\* A call has returned after writes to two branches.
C19_Witness ==
    /\ pc = "done"
    /\ \E d1 \in sent : \E d2 \in sent : d1.branch # d2.branch

\* C20: a request with status Obsolete is only issued for a cell whose
\* current status on the target branch is an active one, neither unspecified
\* nor already Obsolete (checked here for runs whose two responses carried
\* the same status map).
C20_ObsoleteOnlyRevokes ==
    SameStatusMap =>
        \A data \in sent :
            data.statusname = "Obsolete" =>
                statusOf(pkgdbStatus, registry, data.branch, data.personid, data.new_acl)
                    \notin {"unspecified", "Obsolete"}

\* C21  Cloning onto the master only: once the master listing has been
\* fetched and the target list is empty with the master taken out of it,
\* clone_branch sends no edit_package request and no set_acl_status request
\* and does not raise.
C21_MasterOnlyIsNoOp ==
    (/\ pkgdbStatus # << >>
     /\ branches = << >>
     /\ ~groupListRaises(pkgGroups, pkgdbStatus))
    => /\ pc # "failed"
       /\ provisioned = << >>
       /\ sent = {}

====
